---- MODULE Spec2Model ----
(***************************************************************************)
(* Model of the DRBD live status monitor                                   *)
(*   src/service_Node_Config/service_Node-01/scripts/DRBD+NFS/             *)
(*       2-drbd-disk-moniter.py                                            *)
(*                                                                         *)
(* A string is a sequence of chunks (TLA+ strings); the chunk " " is       *)
(* whitespace and the chunk ":" is the colon.  Substring search, split()   *)
(* and split(':') work on these sequences as Python's work on characters.  *)
(* A Python list that the program mutates in place (history) is an object  *)
(* of `heap', named by its index; a name bound to it holds the index.      *)
(***************************************************************************)
EXTENDS Integers, Sequences, FiniteSets, TLC

VARIABLES
    pc,                \* position in the __main__ block / main()
    stdscr,            \* __main__: stdscr is not None
    term,              \* the terminal: curses session and tty modes
    now,               \* main: clock reading of the current tick
    src,               \* the content of /proc/drbd at the last poll (environment)
    lines,             \* main: lines
    state,             \* main: state
    message,           \* main: message
    history,           \* main: history (index into heap, 0 = unbound)
    last_message,      \* main: last_message
    heap,              \* the list objects history / snapshot history refer to
    last_screen_data,  \* global: <<>> is None, <<dict>> otherwise
    rawPane,           \* the raw status lines on screen after the last redraw
    out,               \* lines printed to stdout by render_final_screen
    trigger,           \* how the try block was left
    exitcode,          \* process exit status (-1 while running)
    recorded           \* every entry ever appended to history, in order

vars == <<pc, stdscr, term, now, src, lines, state, message, history,
          last_message, heap, last_screen_data, rawPane, out, trigger,
          exitcode, recorded>>

----------------------------------------------------------------------------
(* Bounds of the model *)

\* polls of one run under Spec
MaxTicks == 4
\* polls of one run under SpecHist (more than MAX_HISTORY, so eviction happens)
MaxHistTicks == 14
\* list objects that can be live at once
NumLists == 3

(* Program constants *)
MAX_HISTORY == 12

PROC_FILE == "/proc/drbd"

None == <<>>

Min(a, b) == IF a < b THEN a ELSE b
Max(a, b) == IF a > b THEN a ELSE b

----------------------------------------------------------------------------
(* Python string and list operations *)

\* sub in s
Contains(s, sub) ==
    \E i \in 0..(Len(s) - Len(sub)) :
        \A j \in 1..Len(sub) : s[i + j] = sub[j]

\* sep.join(parts)
RECURSIVE JoinWith(_, _)
JoinWith(parts, sep) ==
    IF parts = <<>> THEN <<>>
    ELSE IF Len(parts) = 1 THEN parts[1]
    ELSE parts[1] \o sep \o JoinWith(Tail(parts), sep)

\* s.split(): split on runs of whitespace, no empty parts
RECURSIVE SplitWsAcc(_, _, _, _)
SplitWsAcc(s, i, cur, acc) ==
    IF i > Len(s) THEN (IF cur = <<>> THEN acc ELSE Append(acc, cur))
    ELSE IF s[i] = " "
         THEN SplitWsAcc(s, i + 1, <<>>, IF cur = <<>> THEN acc ELSE Append(acc, cur))
         ELSE SplitWsAcc(s, i + 1, Append(cur, s[i]), acc)

str_split(s) == SplitWsAcc(s, 1, <<>>, <<>>)

\* s.split(sep): split on every sep, empty parts kept
RECURSIVE SplitSepAcc(_, _, _, _, _)
SplitSepAcc(s, sep, i, cur, acc) ==
    IF i > Len(s) THEN Append(acc, cur)
    ELSE IF s[i] = sep
         THEN SplitSepAcc(s, sep, i + 1, <<>>, Append(acc, cur))
         ELSE SplitSepAcc(s, sep, i + 1, Append(cur, s[i]), acc)

str_split_sep(s, sep) == SplitSepAcc(s, sep, 1, <<>>, <<>>)

\* s[:n]
PyTake(s, n) ==
    IF n >= 0 THEN SubSeq(s, 1, Min(n, Len(s)))
    ELSE SubSeq(s, 1, Max(0, Len(s) + n))

\* s[-n:]  (n > 0)
PyLast(s, n) ==
    IF n >= Len(s) THEN s ELSE SubSeq(s, Len(s) - n + 1, Len(s))

\* s.rstrip() of one line: trailing whitespace removed
RECURSIVE RStripLine(_)
RStripLine(s) ==
    IF s # <<>> /\ s[Len(s)] = " " THEN RStripLine(SubSeq(s, 1, Len(s) - 1)) ELSE s

\* text.rstrip().splitlines() of a text given as its lines: trailing blank
\* lines go, and so does the trailing whitespace of the last line left
RECURSIVE RStripSplitLines(_)
RStripSplitLines(ls) ==
    IF ls = <<>> THEN <<>>
    ELSE IF RStripLine(ls[Len(ls)]) = <<>>
         THEN RStripSplitLines(SubSeq(ls, 1, Len(ls) - 1))
         ELSE SubSeq(ls, 1, Len(ls) - 1) \o <<RStripLine(ls[Len(ls)])>>

----------------------------------------------------------------------------
(* The status source: what /proc/drbd can hold at a poll *)

MarkerNames == {"WF", "SS", "CONN", "DS", "OOS"}

Marker(m) ==
    CASE m = "WF"   -> <<"cs", ":", "WFConnection">>
      [] m = "SS"   -> <<"cs", ":", "SyncSource">>
      [] m = "CONN" -> <<"cs", ":", "Connected">>
      [] m = "DS"   -> <<"ds", ":", "UpToDate/UpToDate">>
      [] m = "OOS"  -> <<"oos", ":", "0">>

RESYNC == <<"resync", ":">>

Progress == "42%"

ResyncForms == {"none", "tight", "spaced"}

\* the resync-progress segment: absent, `resync:42%', or `resync: 42%'
ResyncSegment(r) ==
    CASE r = "none"   -> <<>>
      [] r = "tight"  -> <<" ">> \o RESYNC \o <<Progress>>
      [] r = "spaced" -> <<" ">> \o RESYNC \o <<" ", Progress>>

Ordinals == <<"1", "2", "3", "4", "5", "6", "7", "8", "9", "10", "11", "12">>

VersionLine == <<"version", ":", " ", "8.4.11">>

RECURSIVE MarkersOf(_, _)
MarkersOf(order, marks) ==
    IF order = <<>> THEN <<>>
    ELSE (IF Head(order) \in marks THEN <<" ">> \o Marker(Head(order)) ELSE <<>>)
         \o MarkersOf(Tail(order), marks)

DeviceLine(marks) == <<" ", "0", ":">> \o MarkersOf(<<"WF", "SS", "CONN", "DS">>, marks)

CounterLine(marks, r) ==
    <<" ", "ns", ":", "0">>
    \o (IF "OOS" \in marks THEN <<" ">> \o Marker("OOS") ELSE <<" ", "oos", ":", "7">>)
    \o ResyncSegment(r)

ExtraLine(i) == <<" ", "act_log", ":", Ordinals[i]>>

\* the file's text, as its lines: s.extra further lines, s.blank trailing blank lines
FileLines(s) ==
    <<VersionLine, DeviceLine(s.marks), CounterLine(s.marks, s.resync)>>
    \o [i \in 1..s.extra |-> ExtraLine(i)]
    \o [i \in 1..s.blank |-> <<" ">>]

Source(ok, marks, r, extra, blank) ==
    [ok |-> ok, marks |-> marks, resync |-> r, extra |-> extra, blank |-> blank]

NoSource == Source(FALSE, {}, "none", 0, 0)

\* every combination of the five markers with every form of the resync segment
AllSources ==
    {Source(TRUE, m, r, 0, 0) : m \in SUBSET MarkerNames, r \in ResyncForms}
    \cup {NoSource}

\* what the loop is polled with under Spec
LoopSources ==
    { NoSource,
      Source(TRUE, {"WF"}, "none", 0, 1),
      Source(TRUE, {"SS"}, "none", 0, 0),
      Source(TRUE, {"SS"}, "tight", 7, 0),
      Source(TRUE, {"SS"}, "spaced", 0, 0),
      Source(TRUE, {}, "none", 6, 0),
      Source(TRUE, {"CONN", "DS", "OOS"}, "none", 0, 0),
      Source(TRUE, {"CONN", "DS", "OOS"}, "none", 7, 1) }

\* what the loop is polled with under SpecHist
HistSources ==
    { NoSource,
      Source(TRUE, {"WF"}, "none", 0, 0),
      Source(TRUE, {"CONN", "DS", "OOS"}, "none", 0, 0) }

\* terminal heights stdscr.getmaxyx() can report
Heights == {3, 14, 24}
HistHeights == {24}

----------------------------------------------------------------------------
(* read_drbd *)

ErrStatus ==
    << <<"ERROR", ":", " ", "[Errno 2] No such file or directory", ":", " ", PROC_FILE>>,
       <<"Is DRBD loaded?", " ", "Check", " ", PROC_FILE, " ", "exists">> >>

read_drbd(s) ==
    IF s.ok THEN RStripSplitLines(FileLines(s)) ELSE ErrStatus

----------------------------------------------------------------------------
(* detect_state *)

MSG_WAITING == <<"Waiting for Secondary", " ", "Node Disk">>
MSG_SYNC_PREFIX == <<"Syncing disks", ":", " ">>
MSG_SYNC_ONLINE == <<"Secondary node disk online, waiting for sync to complete">>
MSG_DONE == <<"DRBD SYNC COMPLETE - Resources fully synchronized">>
MSG_UNKNOWN == <<"Unknown DRBD state">>

\* the parts of line.split() that contain "resync:"
ResyncParts(line) == SelectSeq(str_split(line), LAMBDA p : Contains(p, RESYNC))

\* the loops of lines 29-35: the first part containing "resync:" of the first
\* line containing it decides the message
RECURSIVE SyncMessage(_)
SyncMessage(ls) ==
    IF ls = <<>> THEN MSG_SYNC_ONLINE
    ELSE IF Contains(Head(ls), RESYNC) /\ ResyncParts(Head(ls)) # <<>>
         THEN MSG_SYNC_PREFIX \o str_split_sep(ResyncParts(Head(ls))[1], ":")[2]
         ELSE SyncMessage(Tail(ls))

IsDoneText(text) ==
    /\ Contains(text, Marker("CONN"))
    /\ Contains(text, Marker("DS"))
    /\ Contains(text, Marker("OOS"))

\* detect_state with the DONE test moved above the SyncSource test
detect_state_DoneFirst(ls) ==
    LET text == JoinWith(ls, <<" ">>)
    IN  IF Contains(text, Marker("WF")) THEN <<"WAITING_SECONDARY", MSG_WAITING>>
        ELSE IF IsDoneText(text) THEN <<"DONE", MSG_DONE>>
        ELSE IF Contains(text, Marker("SS")) THEN <<"SYNCING", SyncMessage(ls)>>
        ELSE <<"UNKNOWN", MSG_UNKNOWN>>

detect_state(ls) ==
    LET text == JoinWith(ls, <<" ">>)
    IN  IF Contains(text, Marker("WF")) THEN <<"WAITING_SECONDARY", MSG_WAITING>>
        ELSE IF Contains(text, Marker("SS")) THEN <<"SYNCING", SyncMessage(ls)>>
        ELSE IF IsDoneText(text) THEN <<"DONE", MSG_DONE>>
        ELSE <<"UNKNOWN", MSG_UNKNOWN>>

----------------------------------------------------------------------------
(* render_final_screen *)

Printed(tag, t, text) == [tag |-> tag, t |-> t, text |-> text]

Rule == Printed("rule", 0, <<>>)

\* render_final_screen printing only the newest three history entries
render_final_screen_Recent(data) ==
    IF data = None THEN <<>>
    ELSE LET d == data[1]
             shown == PyTake(d.drbd_lines, 8)
             hist == PyLast(heap[d.history], 3)
         IN  << Rule,
                Printed("title", 0, <<"FINAL DRBD STATUS (captured at exit)", ":">>),
                Rule,
                Printed("time", d.time, <<"Timestamp", ":", " ">>),
                Printed("title", 0, <<"CURRENT DRBD STATUS (/proc/drbd)", ":">>) >>
             \o [i \in 1..Len(shown) |-> Printed("raw", 0, shown[i])]
             \o << Printed("title", 0, <<"LATEST STATUS MESSAGE", ":">>),
                   Printed("message", 0, d.message),
                   Printed("title", 0, <<"STATE CHANGE HISTORY", ":">>),
                   Printed("dash", 0, <<>>) >>
             \o [i \in 1..Len(hist) |-> Printed("entry", hist[i][1], hist[i][2])]
             \o << Rule >>

\* data is last_screen_data: <<>> or <<dict>>
render_final_screen(data) ==
    IF data = None THEN <<>>
    ELSE LET d == data[1]
             shown == PyTake(d.drbd_lines, 8)
             hist == PyLast(heap[d.history], MAX_HISTORY)
         IN  << Rule,
                Printed("title", 0, <<"FINAL DRBD STATUS (captured at exit)", ":">>),
                Rule,
                Printed("time", d.time, <<"Timestamp", ":", " ">>),
                Printed("title", 0, <<"CURRENT DRBD STATUS (/proc/drbd)", ":">>) >>
             \o [i \in 1..Len(shown) |-> Printed("raw", 0, shown[i])]
             \o << Printed("title", 0, <<"LATEST STATUS MESSAGE", ":">>),
                   Printed("message", 0, d.message),
                   Printed("title", 0, <<"STATE CHANGE HISTORY", ":">>),
                   Printed("dash", 0, <<>>) >>
             \o [i \in 1..Len(hist) |-> Printed("entry", hist[i][1], hist[i][2])]
             \o << Rule >>

----------------------------------------------------------------------------
(* The state after the module is loaded *)

Lists == 1..NumLists

\* the lowest list index that no name in `used' refers to
Alloc(used) == CHOOSE i \in Lists : i \notin used /\ \A j \in Lists : j \notin used => i <= j

SnapRefs == IF last_screen_data = None THEN {} ELSE {last_screen_data[1].history}

InitCommon ==
    /\ stdscr = FALSE
    /\ term = [active |-> FALSE, echo |-> TRUE, cbreak |-> FALSE,
               keypad |-> FALSE, cursor |-> TRUE]
    /\ now = 0
    /\ state = "unset"
    /\ message = None
    /\ history = 0
    /\ last_message = None
    /\ heap = [i \in Lists |-> <<>>]
    /\ last_screen_data = None
    /\ rawPane = <<>>
    /\ out = <<>>
    /\ trigger = "none"
    /\ exitcode = -1
    /\ recorded = <<>>

Init ==
    /\ pc = "initscr"
    /\ src = NoSource
    /\ lines = <<>>
    /\ InitCommon

----------------------------------------------------------------------------
(* __main__, lines 133-144: terminal setup inside the try block *)

TryPcs == {"initscr", "assign", "noecho", "cbreak", "keypad", "main",
           "poll", "snap", "draw", "hold", "sleep"}

\* an exception leaves the try block: control goes to the finally clause
Raise(kind) ==
    /\ trigger' = kind
    /\ pc' = "finally"

\* curses.initscr() returns: the curses session is active
Initscr ==
    /\ pc = "initscr"
    /\ term' = [term EXCEPT !.active = TRUE]
    /\ pc' = "assign"
    /\ UNCHANGED <<stdscr, now, src, lines, state, message, history, last_message,
                   heap, last_screen_data, rawPane, out, trigger, exitcode, recorded>>

\* curses.initscr() raises curses.error (no usable terminal)
InitscrFails ==
    /\ pc = "initscr"
    /\ Raise("fault")
    /\ UNCHANGED <<stdscr, term, now, src, lines, state, message, history, last_message,
                   heap, last_screen_data, rawPane, out, exitcode, recorded>>

\* stdscr = <the window initscr returned>
AssignStdscr ==
    /\ pc = "assign"
    /\ stdscr' = TRUE
    /\ pc' = "noecho"
    /\ UNCHANGED <<term, now, src, lines, state, message, history, last_message,
                   heap, last_screen_data, rawPane, out, trigger, exitcode, recorded>>

Noecho ==
    /\ pc = "noecho"
    /\ term' = [term EXCEPT !.echo = FALSE]
    /\ pc' = "cbreak"
    /\ UNCHANGED <<stdscr, now, src, lines, state, message, history, last_message,
                   heap, last_screen_data, rawPane, out, trigger, exitcode, recorded>>

Cbreak ==
    /\ pc = "cbreak"
    /\ term' = [term EXCEPT !.cbreak = TRUE]
    /\ pc' = "keypad"
    /\ UNCHANGED <<stdscr, now, src, lines, state, message, history, last_message,
                   heap, last_screen_data, rawPane, out, trigger, exitcode, recorded>>

\* if stdscr: stdscr.keypad(True)
KeypadOn ==
    /\ pc = "keypad"
    /\ term' = IF stdscr THEN [term EXCEPT !.keypad = TRUE] ELSE term
    /\ pc' = "main"
    /\ UNCHANGED <<stdscr, now, src, lines, state, message, history, last_message,
                   heap, last_screen_data, rawPane, out, trigger, exitcode, recorded>>

----------------------------------------------------------------------------
(* main(stdscr) *)

\* lines 67-70: curs_set(0), nodelay(True), history = [], last_message = None
MainStart ==
    /\ pc = "main"
    /\ term' = [term EXCEPT !.cursor = FALSE]
    /\ history' = Alloc(SnapRefs)
    /\ heap' = [heap EXCEPT ![Alloc(SnapRefs)] = <<>>]
    /\ last_message' = None
    /\ pc' = "poll"
    /\ UNCHANGED <<stdscr, now, src, lines, state, message,
                   last_screen_data, rawPane, out, trigger, exitcode, recorded>>

\* curses.curs_set(0) raises curses.error (terminal without an invisible cursor)
MainStartFails ==
    /\ pc = "main"
    /\ Raise("fault")
    /\ UNCHANGED <<stdscr, term, now, src, lines, state, message, history, last_message,
                   heap, last_screen_data, rawPane, out, exitcode, recorded>>

\* the history update without the test `message != last_message'
HistoryUpdate_Always(t, msg) ==
    LET appended == Append(heap[history], <<t, msg>>)
        kept == PyLast(appended, MAX_HISTORY)
        n == Alloc({history} \cup SnapRefs)
    IN  /\ heap' = [i \in Lists |->
                      IF i = n THEN kept
                      ELSE IF i = history
                           THEN (IF history \in SnapRefs THEN appended ELSE <<>>)
                           ELSE heap[i]]
        /\ history' = n
        /\ last_message' = msg
        /\ recorded' = Append(recorded, <<t, msg>>)

\* the history update keeping the first MAX_HISTORY entries: history[:MAX_HISTORY]
HistoryUpdate_KeepOldest(t, msg) ==
    IF msg # last_message
    THEN LET appended == Append(heap[history], <<t, msg>>)
             kept == PyTake(appended, MAX_HISTORY)
             n == Alloc({history} \cup SnapRefs)
         IN  /\ heap' = [i \in Lists |->
                           IF i = n THEN kept
                           ELSE IF i = history
                                THEN (IF history \in SnapRefs THEN appended ELSE <<>>)
                                ELSE heap[i]]
             /\ history' = n
             /\ last_message' = msg
             /\ recorded' = Append(recorded, <<t, msg>>)
    ELSE UNCHANGED <<heap, history, last_message, recorded>>

\* lines 78-81: append when the message changed, keep the last MAX_HISTORY.
\* append mutates the list in place; the slice makes a new list, to which
\* history is rebound.
HistoryUpdate(t, msg) ==
    IF msg # last_message
    THEN LET appended == Append(heap[history], <<t, msg>>)
             kept == PyLast(appended, MAX_HISTORY)
             n == Alloc({history} \cup SnapRefs)
         IN  /\ heap' = [i \in Lists |->
                           IF i = n THEN kept
                           ELSE IF i = history
                                THEN (IF history \in SnapRefs THEN appended ELSE <<>>)
                                ELSE heap[i]]
             /\ history' = n
             /\ last_message' = msg
             /\ recorded' = Append(recorded, <<t, msg>>)
    ELSE UNCHANGED <<heap, history, last_message, recorded>>

\* lines 73-81: read the clock, poll, classify, update the history
Tick(sources, maxTicks) ==
    /\ pc = "poll"
    /\ now < maxTicks
    /\ \E s \in sources :
         /\ src' = s
         /\ now' = now + 1
         /\ lines' = read_drbd(s)
         /\ state' = detect_state(read_drbd(s))[1]
         /\ message' = detect_state(read_drbd(s))[2]
         /\ HistoryUpdate(now + 1, detect_state(read_drbd(s))[2])
    /\ pc' = "snap"
    /\ UNCHANGED <<stdscr, term, last_screen_data, rawPane, out, trigger, exitcode>>

\* the snapshot storing the history list itself: 'history': history
StoreSnapshot_NoCopy ==
    /\ pc = "snap"
    /\ heap' = [i \in Lists |-> IF i = history THEN heap[i] ELSE <<>>]
    /\ last_screen_data' = << [time |-> now, drbd_lines |-> lines,
                               message |-> message, history |-> history] >>
    /\ pc' = "draw"
    /\ UNCHANGED <<stdscr, term, now, src, lines, state, message, history, last_message,
                   rawPane, out, trigger, exitcode, recorded>>

\* lines 84-89: last_screen_data = {..., 'history': history.copy()}
StoreSnapshot ==
    /\ pc = "snap"
    /\ LET c == Alloc({history})
       IN  /\ heap' = [i \in Lists |->
                         IF i = c THEN heap[history]
                         ELSE IF i = history THEN heap[i] ELSE <<>>]
           /\ last_screen_data' = << [time |-> now, drbd_lines |-> lines,
                                      message |-> message, history |-> c] >>
    /\ pc' = "draw"
    /\ UNCHANGED <<stdscr, term, now, src, lines, state, message, history, last_message,
                   rawPane, out, trigger, exitcode, recorded>>

\* lines 102-104: the raw status lines drawn on a terminal of `height' rows
RawPaneAt(ls, height) ==
    LET cand == PyTake(ls, Min(8, height - 15))
    IN  SelectSeq([i \in 1..Len(cand) |-> <<i - 1, cand[i]>>],
                  LAMBDA e : e[1] + 4 < height - 1)

\* the redraw without the exit test `if state == "DONE"'
Draw_NeverExit(heights) ==
    /\ pc = "draw"
    /\ \E height \in heights, err \in BOOLEAN :
         IF height < 4 \/ err
         THEN /\ Raise("fault")
              /\ UNCHANGED rawPane
         ELSE /\ rawPane' = [i \in 1..Len(RawPaneAt(lines, height)) |->
                               RawPaneAt(lines, height)[i][2]]
              /\ pc' = "sleep"
              /\ UNCHANGED trigger
    /\ UNCHANGED <<stdscr, term, now, src, lines, state, message, history, last_message,
                   heap, last_screen_data, out, exitcode, recorded>>

\* the redraw with the exit test `if state in ("DONE", "UNKNOWN")'
Draw_ExitOnUnknown(heights) ==
    /\ pc = "draw"
    /\ \E height \in heights, err \in BOOLEAN :
         IF height < 4 \/ err
         THEN /\ Raise("fault")
              /\ UNCHANGED rawPane
         ELSE /\ rawPane' = [i \in 1..Len(RawPaneAt(lines, height)) |->
                               RawPaneAt(lines, height)[i][2]]
              /\ pc' = IF state \in {"DONE", "UNKNOWN"} THEN "hold" ELSE "sleep"
              /\ UNCHANGED trigger
    /\ UNCHANGED <<stdscr, term, now, src, lines, state, message, history, last_message,
                   heap, last_screen_data, out, exitcode, recorded>>

\* lines 92-128: erase, redraw, refresh.  addstr(3, 0, ...) is not guarded by
\* the height, and any curses call can raise curses.error.
Draw(heights) ==
    /\ pc = "draw"
    /\ \E height \in heights, err \in BOOLEAN :
         IF height < 4 \/ err
         THEN /\ Raise("fault")
              /\ UNCHANGED rawPane
         ELSE /\ rawPane' = [i \in 1..Len(RawPaneAt(lines, height)) |->
                               RawPaneAt(lines, height)[i][2]]
              /\ pc' = IF state = "DONE" THEN "hold" ELSE "sleep"
              /\ UNCHANGED trigger
    /\ UNCHANGED <<stdscr, term, now, src, lines, state, message, history, last_message,
                   heap, last_screen_data, out, exitcode, recorded>>

\* lines 126-128: time.sleep(0.3); return
Hold ==
    /\ pc = "hold"
    /\ trigger' = "done"
    /\ pc' = "finally"
    /\ UNCHANGED <<stdscr, term, now, src, lines, state, message, history, last_message,
                   heap, last_screen_data, rawPane, out, exitcode, recorded>>

\* line 130: time.sleep(REFRESH_INTERVAL)
Sleep ==
    /\ pc = "sleep"
    /\ pc' = "poll"
    /\ UNCHANGED <<stdscr, term, now, src, lines, state, message, history, last_message,
                   heap, last_screen_data, rawPane, out, trigger, exitcode, recorded>>

\* KeyboardInterrupt raised anywhere in the try block; line 146-147 swallow it
Interrupt ==
    /\ pc \in TryPcs
    /\ Raise("interrupt")
    /\ UNCHANGED <<stdscr, term, now, src, lines, state, message, history, last_message,
                   heap, last_screen_data, rawPane, out, exitcode, recorded>>

----------------------------------------------------------------------------
(* __main__, lines 148-165: the finally clause *)

\* lines 150-156: if stdscr: nocbreak(); keypad(False); echo()
RestoreModes ==
    /\ pc = "finally"
    /\ term' = IF stdscr
               THEN [term EXCEPT !.cbreak = FALSE, !.keypad = FALSE, !.echo = TRUE]
               ELSE term
    /\ pc' = "endwin"
    /\ UNCHANGED <<stdscr, now, src, lines, state, message, history, last_message,
                   heap, last_screen_data, rawPane, out, trigger, exitcode, recorded>>

\* the finally clause without the call of curses.endwin()
Endwin_Omitted ==
    /\ pc = "endwin"
    /\ pc' = "report"
    /\ UNCHANGED <<stdscr, term, now, src, lines, state, message, history, last_message,
                   heap, last_screen_data, rawPane, out, trigger, exitcode, recorded>>

\* lines 157-160: curses.endwin(); it raises without a session, which is swallowed
Endwin ==
    /\ pc = "endwin"
    /\ term' = IF term.active
               THEN [term EXCEPT !.active = FALSE, !.cursor = TRUE]
               ELSE term
    /\ pc' = "report"
    /\ UNCHANGED <<stdscr, now, src, lines, state, message, history, last_message,
                   heap, last_screen_data, rawPane, out, trigger, exitcode, recorded>>

\* the finally clause printing no report after a KeyboardInterrupt
FinalReport_SilentOnInterrupt ==
    /\ pc = "report"
    /\ out' = IF last_screen_data # None /\ trigger # "interrupt"
              THEN render_final_screen(last_screen_data) ELSE <<>>
    /\ exitcode' = 0
    /\ pc' = "exited"
    /\ UNCHANGED <<stdscr, term, now, src, lines, state, message, history, last_message,
                   heap, last_screen_data, rawPane, trigger, recorded>>

\* the finally clause exiting with status 1 when there is nothing to report
FinalReport_FailWithoutSnapshot ==
    /\ pc = "report"
    /\ out' = IF last_screen_data # None THEN render_final_screen(last_screen_data) ELSE <<>>
    /\ exitcode' = IF last_screen_data # None THEN 0 ELSE 1
    /\ pc' = "exited"
    /\ UNCHANGED <<stdscr, term, now, src, lines, state, message, history, last_message,
                   heap, last_screen_data, rawPane, trigger, recorded>>

\* lines 162-165: if last_screen_data: render_final_screen(...); sys.exit(0)
FinalReport ==
    /\ pc = "report"
    /\ out' = IF last_screen_data # None THEN render_final_screen(last_screen_data) ELSE <<>>
    /\ exitcode' = 0
    /\ pc' = "exited"
    /\ UNCHANGED <<stdscr, term, now, src, lines, state, message, history, last_message,
                   heap, last_screen_data, rawPane, trigger, recorded>>

Setup == Initscr \/ InitscrFails \/ AssignStdscr \/ Noecho \/ Cbreak \/ KeypadOn

Finally == RestoreModes \/ Endwin \/ FinalReport

Next ==
    \/ Setup
    \/ MainStart \/ MainStartFails
    \/ Tick(LoopSources, MaxTicks)
    \/ StoreSnapshot
    \/ Draw(Heights)
    \/ Hold \/ Sleep
    \/ Interrupt
    \/ Finally

Spec == Init /\ [][Next]_vars

\* the same program polled with few distinct statuses, for long enough to evict
NextHist ==
    \/ Setup
    \/ MainStart \/ MainStartFails
    \/ Tick(HistSources, MaxHistTicks)
    \/ StoreSnapshot
    \/ Draw(HistHeights)
    \/ Hold \/ Sleep
    \/ Interrupt
    \/ Finally

SpecHist == Init /\ [][NextHist]_vars

----------------------------------------------------------------------------
(* read_drbd and detect_state alone, over every status text *)

InitClassify ==
    /\ pc = "read"
    /\ src \in AllSources
    /\ lines = <<>>
    /\ InitCommon

ReadAndClassify ==
    /\ pc = "read"
    /\ lines' = read_drbd(src)
    /\ state' = detect_state(read_drbd(src))[1]
    /\ message' = detect_state(read_drbd(src))[2]
    /\ pc' = "classified"
    /\ UNCHANGED <<stdscr, term, now, src, history, last_message, heap,
                   last_screen_data, rawPane, out, trigger, exitcode, recorded>>

NextSource ==
    /\ pc = "classified"
    /\ src' \in AllSources
    /\ pc' = "read"
    /\ UNCHANGED <<stdscr, term, now, lines, state, message, history, last_message, heap,
                   last_screen_data, rawPane, out, trigger, exitcode, recorded>>

NextClassify == ReadAndClassify \/ NextSource

SpecClassify == InitClassify /\ [][NextClassify]_vars

----------------------------------------------------------------------------
(* Properties *)

ModesRestored == ~term.cbreak /\ ~term.keypad /\ term.echo

\* C1: whatever ends the loop (DONE, a KeyboardInterrupt in a tick or in the
\* sleep, a curses error while drawing), report text is written only after
\* nocbreak/keypad(False)/echo and endwin have run: every step that prints
\* starts in a state whose curses session is closed and whose modes are reset.
C1_TeardownBeforeReport ==
    [][out' # out => (~term.active /\ (stdscr => ModesRestored))]_vars

\* the report has been printed after a redraw raised in the second tick or later
C1_Witness ==
    /\ pc = "exited"
    /\ out # <<>>
    /\ trigger = "fault"
    /\ now >= 2
    /\ stdscr

\* the state the priority order WAITING_SECONDARY > SYNCING > DONE > UNKNOWN
\* gives to a text, from the markers written into it
ExpectedState(marks) ==
    IF "WF" \in marks THEN "WAITING_SECONDARY"
    ELSE IF "SS" \in marks THEN "SYNCING"
    ELSE IF {"CONN", "DS", "OOS"} \subseteq marks THEN "DONE"
    ELSE "UNKNOWN"

\* C2: for every combination of the five markers in the status text the
\* classifier returns the first match of WAITING_SECONDARY > SYNCING > DONE >
\* UNKNOWN: WAITING_SECONDARY whenever cs:WFConnection is present (with its
\* message), and never DONE when cs:SyncSource is present.
C2_FirstMatchWins ==
    (pc = "classified" /\ src.ok) =>
        /\ state = ExpectedState(src.marks)
        /\ "WF" \in src.marks =>
              (state = "WAITING_SECONDARY" /\ Contains(message, <<"Waiting for Secondary">>))
        /\ "SS" \in src.marks => state # "DONE"

\* a text with cs:SyncSource and the whole DONE predicate was classified SYNCING
C2_Witness ==
    /\ pc = "classified"
    /\ src.ok
    /\ src.marks = {"SS", "CONN", "DS", "OOS"}
    /\ state = "SYNCING"

\* C3: a text with cs:SyncSource, no cs:WFConnection and a segment
\* `resync: 42%' is classified SYNCING with a message containing 42%.
C3_ProgressInMessage ==
    (pc = "classified" /\ src.ok /\ "SS" \in src.marks /\ "WF" \notin src.marks
        /\ src.resync = "spaced")
    => (state = "SYNCING" /\ Contains(message, <<Progress>>))

\* the list history is bound to
Hist == IF history = 0 THEN <<>> ELSE heap[history]

NoAdjacentDuplicates(h) == \A i \in 1..(Len(h) - 1) : h[i][2] # h[i + 1][2]

\* C4: after any sequence of ticks, eviction included, no two adjacent history
\* entries carry the same message, and a tick whose message equals the last
\* recorded message leaves the history as it was.
C4_NoAdjacentDuplicates ==
    /\ [](NoAdjacentDuplicates(Hist))
    /\ [][(pc = "poll" /\ pc' = "snap" /\ Hist # <<>> /\ message' = Hist[Len(Hist)][2])
            => heap'[history'] = Hist]_vars

\* entries have been evicted and some ticks repeated the last message
C4_Witness ==
    /\ Len(recorded) > MAX_HISTORY
    /\ now > Len(recorded)
    /\ Len(Hist) = MAX_HISTORY

\* C5: the history holds at most 12 entries and always equals the last
\* min(n, 12) of the n entries recorded so far, oldest first (FIFO eviction).
C5_BoundedFifo ==
    history # 0 =>
        /\ Len(Hist) <= 12
        /\ Len(Hist) = Min(Len(recorded), 12)
        /\ \A i \in 1..Len(Hist) : Hist[i] = recorded[Len(recorded) - Len(Hist) + i]

\* a 13th entry has been appended and the first one is gone
C5_Witness ==
    /\ Len(recorded) = 13
    /\ Len(Hist) = 12
    /\ Hist[1] = recorded[2]
    /\ Hist[12] = recorded[13]

----------------------------------------------------------------------------
(* What the final report shows *)

Tagged(o, tag) == SelectSeq(o, LAMBDA l : l.tag = tag)

ReportTime(o) == Tagged(o, "time")[1].t
ReportMessage(o) == Tagged(o, "message")[1].text
ReportRaw(o) == [i \in 1..Len(Tagged(o, "raw")) |-> Tagged(o, "raw")[i].text]
ReportEntries(o) ==
    [i \in 1..Len(Tagged(o, "entry")) |-> <<Tagged(o, "entry")[i].t, Tagged(o, "entry")[i].text>>]

IsDoneSource(s) ==
    s.ok /\ {"CONN", "DS", "OOS"} \subseteq s.marks /\ "WF" \notin s.marks /\ "SS" \notin s.marks

\* C6: a poll returning cs:Connected, ds:UpToDate/UpToDate and oos:0 (without
\* cs:WFConnection and cs:SyncSource) is classified DONE; after it the status
\* source is never read again, a completed redraw of that tick leads to the
\* hold and out of the loop, and when the run is not cut short by a
\* KeyboardInterrupt the final report is printed with the sync-complete
\* message as its latest message.
C6_DoneStopsLoop ==
    /\ []((pc \in {"snap", "draw", "hold", "sleep"} /\ IsDoneSource(src)) => state = "DONE")
    /\ [][state = "DONE" => (now' = now /\ src' = src /\ lines' = lines)]_vars
    /\ [][(pc = "draw" /\ state = "DONE") => pc' \in {"hold", "finally"}]_vars
    /\ []((pc = "exited" /\ state = "DONE" /\ trigger # "interrupt") =>
            (out # <<>> /\ ReportMessage(out) = MSG_DONE /\ ReportTime(out) = now))

\* the loop ended by DONE in the third tick and the report was printed
C6_Witness ==
    /\ pc = "exited"
    /\ trigger = "done"
    /\ IsDoneSource(src)
    /\ now = 3
    /\ out # <<>>

\* C7: a failing poll raises nothing and yields a two-line RawStatus (error
\* description, hint naming /proc/drbd), classified UNKNOWN; a tick classified
\* UNKNOWN never ends the loop by itself (only a KeyboardInterrupt or a curses
\* error leaves it), and after its sleep the next step is the next poll.
C7_ReadFailureKeepsPolling ==
    /\ []((pc \in {"snap", "draw", "sleep"} /\ ~src.ok) =>
            /\ Len(lines) = 2
            /\ Contains(lines[1], <<"ERROR">>)
            /\ Contains(lines[2], <<PROC_FILE>>)
            /\ state = "UNKNOWN")
    /\ [][(pc = "poll" /\ pc' # "finally") => pc' = "snap"]_vars
    /\ [][(state = "UNKNOWN" /\ pc \in {"snap", "draw", "sleep"} /\ pc' # pc) =>
            \/ pc' \in {"draw", "sleep", "poll"}
            \/ pc' = "finally" /\ trigger' \in {"interrupt", "fault"}]_vars
    /\ [][(state = "UNKNOWN" /\ pc = "sleep" /\ pc' # "finally") => pc' = "poll"]_vars

\* three polls in a row failed and the loop is about to poll again
C7_Witness ==
    /\ pc = "poll"
    /\ now = 3
    /\ ~src.ok
    /\ Len(recorded) = 1
    /\ state = "UNKNOWN"

\* the snapshot dict, when one is stored
Snap == last_screen_data[1]

\* C8 as stated: the report holds the snapshot's timestamp, every line of its
\* raw status whatever the length, its message and all of its history.
C8_FullRawStatus ==
    (pc = "exited" /\ last_screen_data # None) =>
        /\ ReportTime(out) = Snap.time
        /\ ReportRaw(out) = Snap.drbd_lines
        /\ ReportMessage(out) = Snap.message
        /\ ReportEntries(out) = heap[Snap.history]

\* C8, amended: whenever a snapshot was stored, the report holds the
\* snapshot's timestamp, the first 8 lines of its raw status (all of them when
\* there are at most 8), its message, and every entry of its history, oldest
\* first.
C8_ReportOfSnapshot ==
    (pc = "exited" /\ last_screen_data # None) =>
        /\ out # <<>>
        /\ ReportTime(out) = Snap.time
        /\ ReportRaw(out) = SubSeq(Snap.drbd_lines, 1, Min(8, Len(Snap.drbd_lines)))
        /\ ReportMessage(out) = Snap.message
        /\ ReportEntries(out) = heap[Snap.history]

\* a report of a snapshot with more than 8 raw lines and 4 history entries
C8_Witness ==
    /\ pc = "exited"
    /\ last_screen_data # None
    /\ Len(Snap.drbd_lines) > 8
    /\ Len(heap[Snap.history]) = 4
    /\ Len(Tagged(out, "raw")) = 8

\* C9 as stated: every run ended by a KeyboardInterrupt prints the final report.
C9_InterruptAlwaysReports ==
    (pc = "exited" /\ trigger = "interrupt") => out # <<>>

\* C9, amended: a run ended by a KeyboardInterrupt raised in the try block
\* has gone through teardown when it exits (session closed; modes reset when
\* stdscr was bound) with exit status 0, and it has printed the final report
\* exactly when a snapshot had been stored before the interrupt; an interrupt
\* during terminal setup or in the first tick before the store prints nothing.
C9_InterruptReportsSnapshot ==
    (pc = "exited" /\ trigger = "interrupt") =>
        /\ ~term.active
        /\ stdscr => ModesRestored
        /\ exitcode = 0
        /\ (out # <<>>) <=> (last_screen_data # None)
        /\ (now = 0) => (out = <<>>)
        /\ (now >= 2) => (out # <<>>)
        /\ (last_screen_data # None) =>
              (ReportTime(out) = Snap.time /\ ReportMessage(out) = Snap.message)

\* interrupted in the sleep of the second tick, report printed
C9_Witness ==
    /\ pc = "exited"
    /\ trigger = "interrupt"
    /\ now = 2
    /\ out # <<>>
    /\ ReportTime(out) = 2

\* C10: from the store until the next poll the snapshot is the current
\* tick's own data (timestamp, raw status, message, a list equal to the
\* history after this tick's update); a redraw that raises in tick k is
\* followed by a report of tick k's data; and no step other than the store
\* changes the snapshot or the list it holds.
C10_SnapshotBeforeDraw ==
    /\ []((pc \in {"draw", "hold", "sleep"}) =>
            /\ last_screen_data # None
            /\ Snap.time = now
            /\ Snap.drbd_lines = lines
            /\ Snap.message = message
            /\ heap[Snap.history] = Hist
            /\ Snap.history # history)
    /\ []((pc = "exited" /\ trigger = "fault" /\ now >= 1) =>
            /\ out # <<>>
            /\ ReportTime(out) = now
            /\ ReportRaw(out) = SubSeq(lines, 1, Min(8, Len(lines)))
            /\ ReportMessage(out) = message
            /\ ReportEntries(out) = Hist)
    /\ [][(last_screen_data # None /\ pc # "snap") =>
            (last_screen_data' = last_screen_data
             /\ heap'[Snap.history] = heap[Snap.history])]_vars

\* the redraw raised in the second tick, which had appended an entry, and
\* the report shows that entry
C10_Witness ==
    /\ pc = "exited"
    /\ trigger = "fault"
    /\ now = 2
    /\ Len(recorded) = 2
    /\ out # <<>>
    /\ ReportEntries(out)[2] = <<2, message>>

\* C11: a run whose loop ended by DONE and a run ended by a KeyboardInterrupt
\* both exit with status 0, with or without a stored snapshot, and no run
\* ended in one of these ways has any other exit status.
C11_ExitZero ==
    /\ (pc = "exited" /\ trigger \in {"done", "interrupt"}) => exitcode = 0
    /\ (trigger \in {"done", "interrupt"} /\ exitcode # -1) => (pc = "exited" /\ exitcode = 0)

\* interrupted before any snapshot was stored, exited with status 0
C11_Witness ==
    /\ pc = "exited"
    /\ trigger = "interrupt"
    /\ last_screen_data = None
    /\ stdscr
    /\ exitcode = 0

IsPrefix(p, s) == Len(p) <= Len(s) /\ \A i \in 1..Len(p) : p[i] = s[i]

\* C12: after every completed redraw, whatever the terminal height and the
\* length of RawStatus, the raw-status pane holds at most 8 lines, they are
\* the first lines of RawStatus in order, and there are no more of them than
\* RawStatus has.
C12_RawPaneAtMostEight ==
    (pc \in {"hold", "sleep"}) =>
        /\ Len(rawPane) <= 8
        /\ IsPrefix(rawPane, lines)

====
